---------------------------- MODULE Spec2Model ----------------------------
(***************************************************************************)
(* A model of cjsocks (cjsocks.go): the SOCKS5 name resolver that keeps an *)
(* FQDN -> address map current from the Docker event feed.                 *)
(*                                                                         *)
(* Go strings are modelled as sequences of one-character strings, so that  *)
(* len(), slicing, strings.ToLower and strings.Split are computed the way  *)
(* the code computes them.  The empty Go string "" is the empty sequence.  *)
(***************************************************************************)
EXTENDS Integers, Sequences, FiniteSets, TLC

(***************************************************************************)
(* Bounds of the model.                                                    *)
(***************************************************************************)
NumContainers == 2      \* container ids are 1..NumContainers
NumResolvers == 1       \* connections of the proxy that call Resolve concurrently
MaxEnvSteps == 2        \* transitions of the Docker side that are explored

Ids == 1..NumContainers
Resolvers == 1..NumResolvers

(***************************************************************************)
(* Text.                                                                   *)
(***************************************************************************)
Empty == << >>

UpperChars == <<"A","B","C","D","E","F","G","H","I","J","K","L","M",
                "N","O","P","Q","R","S","T","U","V","W","X","Y","Z">>
LowerChars == <<"a","b","c","d","e","f","g","h","i","j","k","l","m",
                "n","o","p","q","r","s","t","u","v","w","x","y","z">>

LowerChar(c) ==
    IF \E i \in 1..Len(UpperChars) : UpperChars[i] = c
    THEN LowerChars[CHOOSE i \in 1..Len(UpperChars) : UpperChars[i] = c]
    ELSE c

UpperChar(c) ==
    IF \E i \in 1..Len(LowerChars) : LowerChars[i] = c
    THEN UpperChars[CHOOSE i \in 1..Len(LowerChars) : LowerChars[i] = c]
    ELSE c

\* strings.ToLower
ToLower(s) == [i \in 1..Len(s) |-> LowerChar(s[i])]

\* strings.ToUpper (used only to build queries written in another case)
ToUpper(s) == [i \in 1..Len(s) |-> UpperChar(s[i])]

\* strings.Split(s, ":")[0]: the text before the first ':' (all of s if none)
FirstColon(s) ==
    IF \E i \in 1..Len(s) : s[i] = ":"
    THEN CHOOSE i \in 1..Len(s) : s[i] = ":" /\ \A j \in 1..(i-1) : s[j] # ":"
    ELSE Len(s) + 1

SplitColonFirst(s) == SubSeq(s, 1, FirstColon(s) - 1)

Dot == <<".">>

(***************************************************************************)
(* Program constants (cjsocks.go:49-61).                                   *)
(***************************************************************************)
default_base_domain == <<"c","o","n","t","a","i","n","e","r">>
default_cj_network_name == <<"c","j","-","s","o","c","k","s","5">>

label_cj_hostname == "org.cj-tools.hosts.host_name"
label_docker_compose_service == "com.docker.compose.service"
label_docker_compose_project == "com.docker.compose.project"
label_cj_subdomain == "org.cj-tools.hosts.sub_domain"
label_cj_domain == "org.cj-tools.hosts.domain_name"
label_cj_flag_use_container_base_domain ==
    "org.cj-tools.hosts.use_container_base_domain"

s_true == <<"t","r","u","e">>

\* The length of a hostname Docker generates itself (cjsocks.go:370).
AutoHostnameLen == 12

(***************************************************************************)
(* A container as client.InspectContainer returns it: Name, Config         *)
(* (Hostname, Domainname, Labels) and NetworkSettings (Networks, Ports).   *)
(* Labels, Networks and Ports are Go maps: functions on their key set.     *)
(***************************************************************************)

\* container.Config.Labels[key]: a missing key reads as ""
Label(container, key) ==
    IF key \in DOMAIN container.Labels THEN container.Labels[key] ELSE Empty

\* The variant of publicHostname that takes any non-empty hostname.
publicHostnameKeepsGenerated(container) ==
    IF Label(container, label_cj_hostname) # Empty
    THEN Label(container, label_cj_hostname)
    ELSE IF Label(container, label_docker_compose_service) # Empty
    THEN Label(container, label_docker_compose_service)
    ELSE IF container.Hostname # Empty
    THEN container.Hostname
    ELSE SubSeq(container.Name, 2, Len(container.Name))

\* The host part chosen by getDomains (cjsocks.go:363-375).
publicHostname(container) ==
    IF Label(container, label_cj_hostname) # Empty
    THEN Label(container, label_cj_hostname)
    ELSE IF Label(container, label_docker_compose_service) # Empty
    THEN Label(container, label_docker_compose_service)
    ELSE IF Len(container.Hostname) # AutoHostnameLen /\ container.Hostname # Empty
    THEN container.Hostname
    ELSE SubSeq(container.Name, 2, Len(container.Name))

\* container.Name[1:] panics (slice bounds out of range) on an empty Name.
getDomainsPanics(container) ==
    /\ Label(container, label_cj_hostname) = Empty
    /\ Label(container, label_docker_compose_service) = Empty
    /\ ~(Len(container.Hostname) # AutoHostnameLen /\ container.Hostname # Empty)
    /\ container.Name = Empty

\* The variant of deriveFqdn that puts the subdomain in front of the
\* container's own domain name too.
deriveFqdnSubdomainAlways(container, defaultBaseDomain) ==
    LET host == publicHostname(container)
        useBase == Label(container, label_cj_flag_use_container_base_domain) = s_true
        sub == IF Label(container, label_cj_subdomain) # Empty
               THEN Label(container, label_cj_subdomain) \o Dot
               ELSE IF Label(container, label_docker_compose_project) # Empty
               THEN Label(container, label_docker_compose_project) \o Dot
               ELSE Empty
        tail == IF useBase /\ container.Domainname # Empty
                THEN container.Domainname
                ELSE IF Label(container, label_cj_domain) # Empty
                THEN Label(container, label_cj_domain)
                ELSE defaultBaseDomain
    IN  host \o Dot \o sub \o tail

\* The FQDN built by getDomains (cjsocks.go:377-403).
deriveFqdn(container, defaultBaseDomain) ==
    LET host == publicHostname(container)
        useBase == Label(container, label_cj_flag_use_container_base_domain) = s_true
    IN  IF useBase /\ container.Domainname # Empty
        THEN host \o Dot \o container.Domainname
        ELSE LET sub == IF Label(container, label_cj_subdomain) # Empty
                        THEN Label(container, label_cj_subdomain) \o Dot
                        ELSE IF Label(container, label_docker_compose_project) # Empty
                        THEN Label(container, label_docker_compose_project) \o Dot
                        ELSE Empty
                 tail == IF Label(container, label_cj_domain) # Empty
                         THEN Label(container, label_cj_domain)
                         ELSE IF useBase /\ container.Domainname # Empty
                         THEN container.Domainname
                         ELSE defaultBaseDomain
             IN  host \o Dot \o sub \o tail

\* getDomains (cjsocks.go:354-421): the list of FQDNs of an inspected container.
getDomains(container, defaultBaseDomain) ==
    << deriveFqdn(container, defaultBaseDomain) >>


(***************************************************************************)
(* getContainerIP (cjsocks.go:273-315).  Go iterates a map in an order it  *)
(* chooses: netOrder and portOrder are the orders in which the Networks and *)
(* the Ports of the container are visited.                                 *)
(***************************************************************************)
RECURSIVE networkScan(_, _, _, _, _)
\* cjsocks.go:288-297: the result is <<ip, firstip>> when the loop ends.
networkScan(networks, netOrder, i, firstip, cjnetworkName) ==
    IF i > Len(netOrder)
    THEN << Empty, firstip >>
    ELSE LET networkname == netOrder[i]
             first == IF firstip = Empty THEN networks[networkname] ELSE firstip
         IN  IF ToLower(networkname) = cjnetworkName
             THEN << networks[networkname], first >>
             ELSE networkScan(networks, netOrder, i + 1, first, cjnetworkName)

\* cjsocks.go:305-310: ip after the inner loop over one port's bindings.
bindingScan(bindings, ip) ==
    IF Len(bindings) = 0 THEN ip
    ELSE IF \E j \in 1..Len(bindings) : bindings[j] # Empty
    THEN bindings[CHOOSE j \in 1..Len(bindings) :
                     bindings[j] # Empty /\ \A k \in 1..(j-1) : bindings[k] = Empty]
    ELSE Empty

RECURSIVE portScan(_, _, _, _)
\* cjsocks.go:304-311: the inner break leaves the outer loop running.
portScan(ports, portOrder, i, ip) ==
    IF i > Len(portOrder) THEN ip
    ELSE portScan(ports, portOrder, i + 1, bindingScan(ports[portOrder[i]], ip))

\* The variant of getContainerIP in which the first address found wins.
getContainerIPFirstWins(cjnetworkName, container, netOrder, portOrder) ==
    LET scan == networkScan(container.Networks, netOrder, 1, Empty, cjnetworkName)
        ip == IF scan[2] = Empty THEN scan[1] ELSE scan[2]
    IN  IF ip = Empty THEN portScan(container.Ports, portOrder, 1, ip) ELSE ip

getContainerIP(cjnetworkName, container, netOrder, portOrder) ==
    LET scan == networkScan(container.Networks, netOrder, 1, Empty, cjnetworkName)
        ip == IF scan[1] = Empty THEN scan[2] ELSE scan[1]
    IN  IF ip = Empty THEN portScan(container.Ports, portOrder, 1, ip) ELSE ip

\* The orders in which a Go map with key set S can be iterated.
Orders(S) ==
    { o \in [1..Cardinality(S) -> S] : \A i, j \in 1..Cardinality(S) : i # j => o[i] # o[j] }

(***************************************************************************)
(* The registry: app.fqdnToIp, a Go map[string]string.                     *)
(***************************************************************************)
\* app.fqdnToIp[name] (cjsocks.go:323): a missing key reads as "".
mapaccess(m, name) == IF name \in DOMAIN m THEN m[name] ELSE Empty

\* The variant of mapassign that keeps a value already stored.
mapassignKeepsOld(m, fqdn, ip) ==
    IF fqdn \in DOMAIN m THEN m
    ELSE [k \in DOMAIN m \cup {fqdn} |-> IF k = fqdn THEN ip ELSE m[k]]

\* app.fqdnToIp[fqdn] = ip (cjsocks.go:263)
mapassign(m, fqdn, ip) ==
    [k \in DOMAIN m \cup {fqdn} |-> IF k = fqdn THEN ip ELSE m[k]]

\* The variant of the map read that creates the key it does not find.
mapAfterAccessInserting(m, name) ==
    IF name \in DOMAIN m THEN m ELSE [k \in DOMAIN m \cup {name} |-> IF k = name THEN Empty ELSE m[k]]

\* app.fqdnToIp[name] (cjsocks.go:323) is an index expression: the map is as before.
mapAfterAccess(m, name) == m

\* The host handed to net.ResolveIPAddr (cjsocks.go:323-327): the stored
\* address when the lookup gave one, else the name as given.
resolveHost(stored, name) == IF stored # Empty THEN stored ELSE name

\* delete(app.fqdnToIp, domain) (cjsocks.go:269)
mapdelete(m, domain) == [k \in DOMAIN m \ {domain} |-> m[k]]

\* The variant of the guard that lets an empty address through.
registerDomainsNoGuard(ip) == FALSE

\* registerDomains returns at once on an empty address (cjsocks.go:257-259).
registerDomainsReturnsEarly(ip) == ip = Empty

RECURSIVE removeDomains(_, _)
\* removeDomains (cjsocks.go:267-271).  No statement of the program calls it.
removeDomains(m, domains) ==
    IF domains = << >> THEN m
    ELSE removeDomains(mapdelete(m, Head(domains)), Tail(domains))


(***************************************************************************)
(* The Docker side.  Container id i of the model has the fixed metadata    *)
(* Profiles[i]; its addresses are assigned while the container runs.       *)
(***************************************************************************)
ip_web == <<"1","0",".","0",".","0",".","2">>
ip_app_cj == <<"1","0",".","0",".","1",".","3">>
ip_app == <<"1","0",".","0",".","0",".","3">>
ip_cj == <<"1","0",".","0",".","1",".","9">>
ip_host == <<"0",".","0",".","0",".","0">>
ip_external == <<"9",".","9",".","9",".","9">>

net_bridge == <<"b","r","i","d","g","e">>
net_host == <<"h","o","s","t">>
port_http == <<"8","0","/","t","c","p">>

Profiles == <<
    \* docker run --name web: generated hostname, no labels
    [ Name |-> <<"/","w","e","b">>,
      Hostname |-> <<"0","1","2","3","4","5","6","7","8","9","a","b">>,
      Domainname |-> Empty,
      Labels |-> << >>,
      Networks |-> (net_bridge :> ip_web),
      Ports |-> << >> ],
    \* a compose service "web" attached to cj-socks5 and to bridge
    [ Name |-> <<"/","a","p","p">>,
      Hostname |-> <<"a","p","p">>,
      Domainname |-> Empty,
      Labels |-> (label_docker_compose_service :> <<"w","e","b">>),
      Networks |-> (default_cj_network_name :> ip_app_cj) @@ (net_bridge :> ip_app),
      Ports |-> << >> ],
    \* a host-network container with a host_name label and a published port
    [ Name |-> <<"/","a","p","i">>,
      Hostname |-> Empty,
      Domainname |-> Empty,
      Labels |-> (label_cj_hostname :> <<"A","p","i">>),
      Networks |-> (net_host :> Empty),
      Ports |-> (port_http :> << ip_host >>) ] >>

\* The metadata of container id (ids beyond the listed profiles reuse the last
\* profile's shape under a name of their own).
ProfileOf(id) ==
    IF id <= Len(Profiles) THEN Profiles[id]
    ELSE [ Profiles[Len(Profiles)] EXCEPT !.Name = <<"/","c">> \o [ i \in 1..id |-> "x" ] ]

a_create == <<"c","r","e","a","t","e">>
a_start == <<"s","t","a","r","t">>
a_destroy == <<"d","e","s","t","r","o","y">>
a_stop == <<"s","t","o","p">>
a_kill == <<"k","i","l","l">>
a_die == <<"d","i","e">>
a_disconnect == <<"d","i","s","c","o","n","n","e","c","t">>
a_connect == <<"c","o","n","n","e","c","t">>
a_exec_create == <<"e","x","e","c","_","c","r","e","a","t","e">>
a_exec_start == <<"e","x","e","c","_","s","t","a","r","t">>
a_exec_die == <<"e","x","e","c","_","d","i","e">>
a_rename == <<"r","e","n","a","m","e">>
detail_sh == <<":"," ","s","h">>

\* The actions Docker reports when a container stops running.
StopActions == { a_stop, a_kill, a_die }

\* Other event actions of a running container, some with details after ':'.
NoiseActions == { a_exec_create \o detail_sh, a_exec_start \o detail_sh, a_exec_die,
                  a_connect, a_disconnect, a_rename }

NoEvent == [ ID |-> 0, Action |-> Empty ]

VARIABLES
    status,         \* Docker: container id -> "none", "created", "running", "exited", "removed"
    cjAttached,     \* Docker: the containers ConnectNetwork attached to cj-socks5
    feed,           \* Docker: the event stream, "open" or "closed"
    envSteps,       \* number of Docker-side transitions taken
    listening,      \* an event listener is registered (AddEventListener)
    events,         \* the events channel: events delivered and not yet received
    fqdnToIp,       \* app.fqdnToIp
    autoAdd,        \* app.auto_add_to_cjnetwork
    mainPc,         \* main: "start", "spawned", "serving"
    monPc,          \* monitorDocker: the statement the goroutine is at
    containers,     \* registerRunningContainers: the listing (container ids)
    idx,            \* registerRunningContainers: position in the listing
    event,          \* monitorDocker: the event being handled (the last one received)
    domains,        \* local: result of getDomains
    ip,             \* local: result of getContainerIP
    ret,            \* where registerDomains returns to: "enum" or "loop"
    widx,           \* registerDomains: position in domains of the assignment under way
    resPc,          \* Resolve call of each connection: "idle", "reading", "resolving", "returned"
    resName,        \* Resolve: the name asked for
    resIp,          \* Resolve: the value read from app.fqdnToIp
    resTorn,        \* Resolve: the map read overlapped a map write
    resOut,         \* Resolve: the result returned
    resAsked,       \* Resolve: the host the system resolver was asked for, "" if none
    resCtx,         \* Resolve: the caller's context, "live" or "cancelled"
    crash,          \* "none", or the fatal error that ended the process
    startedInGap,   \* history: containers started after the listing, before the subscription
    seen,           \* history: the container getContainerIP and getDomains last inspected
    regLog,         \* history: the registerDomains calls that returned, in order
    probe           \* a call of getDomains or getContainerIP on its own: arguments and result

dockerVars == << status, cjAttached, feed, envSteps >>
chanVars == << listening, events >>
monVars == << monPc, containers, idx, event, domains, ip, ret, widx >>
resVars == << resPc, resName, resIp, resTorn, resOut, resAsked, resCtx >>
histVars == << startedInGap, seen, regLog >>
vars == << status, cjAttached, feed, envSteps, listening, events, fqdnToIp,
           autoAdd, mainPc, monPc, containers, idx, event, domains, ip, ret, widx,
           resPc, resName, resIp, resTorn, resOut, resAsked, resCtx, crash,
           startedInGap, seen, regLog, probe >>

\* app.defaultBaseDomain (cjsocks.go:83-86) and app.cjnetworkName (cjsocks.go:76)
defaultBaseDomain == default_base_domain
cjnetworkName == default_cj_network_name

\* client.InspectContainer(ID) returns a nil container and an error when Docker
\* does not know the container (not created yet, or removed).
InspectFails(id) == status[id] \notin { "created", "running", "exited" }

\* client.InspectContainer(ID): the container Docker knows.  Addresses and port
\* bindings are present while the container runs.
InspectContainer(id) ==
    LET p == ProfileOf(id)
        up == status[id] = "running"
        nets == IF cjAttached[id] /\ cjnetworkName \notin DOMAIN p.Networks
                THEN p.Networks @@ (cjnetworkName :> ip_cj)
                ELSE p.Networks
    IN  [ Name |-> p.Name,
          Hostname |-> p.Hostname,
          Domainname |-> p.Domainname,
          Labels |-> p.Labels,
          Networks |-> [ n \in DOMAIN nets |-> IF up THEN nets[n] ELSE Empty ],
          Ports |-> IF up THEN p.Ports ELSE << >> ]

\* The names the proxy asks Resolve for.
QueryNames ==
    { deriveFqdn(Profiles[1], defaultBaseDomain),
      ToUpper(deriveFqdn(Profiles[1], defaultBaseDomain)) }


(***************************************************************************)
(* net.ResolveIPAddr("ip", s) on an address literal: the four octets of a  *)
(* dotted-decimal IPv4 address, NoIP (a nil net.IP) when s is none.        *)
(***************************************************************************)
DigitChars == <<"0","1","2","3","4","5","6","7","8","9">>
IsDigit(c) == \E i \in 1..Len(DigitChars) : DigitChars[i] = c
DigitVal(c) == (CHOOSE i \in 1..Len(DigitChars) : DigitChars[i] = c) - 1

RECURSIVE DecimalVal(_)
DecimalVal(s) ==
    IF s = Empty THEN 0
    ELSE DecimalVal(SubSeq(s, 1, Len(s) - 1)) * 10 + DigitVal(s[Len(s)])

RECURSIVE SplitDots(_)
SplitDots(s) ==
    IF \E i \in 1..Len(s) : s[i] = "."
    THEN LET i == CHOOSE i \in 1..Len(s) : s[i] = "." /\ \A j \in 1..(i-1) : s[j] # "."
         IN  << SubSeq(s, 1, i - 1) >> \o SplitDots(SubSeq(s, i + 1, Len(s)))
    ELSE << s >>

IsOctet(s) ==
    /\ Len(s) \in 1..3
    /\ \A i \in 1..Len(s) : IsDigit(s[i])
    /\ (Len(s) > 1 => s[1] # "0")
    /\ DecimalVal(s) <= 255

NoIP == << >>

ParseIP(s) ==
    LET parts == SplitDots(s)
    IN  IF Len(parts) = 4 /\ \A i \in 1..4 : IsOctet(parts[i])
        THEN [ i \in 1..4 |-> DecimalVal(parts[i]) ]
        ELSE NoIP

\* What the system resolver can answer for a name: an address, or an error.
ExternalAnswers ==
    { [ err |-> TRUE, addr |-> NoIP ], [ err |-> FALSE, addr |-> ParseIP(ip_external) ] }

\* No result yet.
NoResult == [ err |-> FALSE, addr |-> NoIP ]

\* Nothing inspected yet.
NotSeen == [ byIP |-> << >>, byDomains |-> << >> ]

(***************************************************************************)
(* Initial state: main has built the App (cjsocks.go:74-86); some          *)
(* containers already run.                                                 *)
(***************************************************************************)
AppInit ==
    /\ status \in [ Ids -> { "none", "running" } ]
    /\ cjAttached = [ id \in Ids |-> FALSE ]
    /\ feed = "open"
    /\ envSteps = 0
    /\ listening = FALSE
    /\ events = << >>
    /\ fqdnToIp = << >>
    /\ autoAdd \in BOOLEAN
    /\ mainPc = "start"
    /\ monPc = "idle"
    /\ containers = << >>
    /\ idx = 1
    /\ event = NoEvent
    /\ domains = << >>
    /\ ip = Empty
    /\ ret = "enum"
    /\ widx = 1
    /\ resPc = [ r \in Resolvers |-> "idle" ]
    /\ resName = [ r \in Resolvers |-> Empty ]
    /\ resIp = [ r \in Resolvers |-> Empty ]
    /\ resTorn = [ r \in Resolvers |-> FALSE ]
    /\ resOut = [ r \in Resolvers |-> NoResult ]
    /\ resAsked = [ r \in Resolvers |-> Empty ]
    /\ resCtx = [ r \in Resolvers |-> "live" ]
    /\ crash = "none"
    /\ startedInGap = {}
    /\ seen = NotSeen
    /\ regLog = << >>

\* No function is called on its own.
NoProbe == [ pc |-> "off" ]

Init == AppInit /\ probe = NoProbe

Alive == crash = "none"

(***************************************************************************)
(* Docker: container lifecycle and the event stream.                       *)
(***************************************************************************)
Delivering == listening /\ feed = "open"

Published(id, action) ==
    IF Delivering THEN Append(events, [ ID |-> id, Action |-> action ]) ELSE events

\* The listing has been taken and no listener is registered yet.
InGap ==
    \/ monPc \in { "enum_domains", "enum_ip", "subscribe" }
    \/ monPc \in { "register", "assign" } /\ ret = "enum"

DockerStep(id, to, action) ==
    /\ Alive
    /\ envSteps < MaxEnvSteps
    /\ status' = [ status EXCEPT ![id] = to ]
    /\ events' = Published(id, action)
    /\ envSteps' = envSteps + 1
    /\ UNCHANGED << cjAttached, feed, listening, fqdnToIp, autoAdd, mainPc,
                    regLog, seen, crash, probe >>
    /\ UNCHANGED monVars
    /\ UNCHANGED resVars

DockerCreate(id) ==
    /\ status[id] = "none"
    /\ DockerStep(id, "created", a_create)
    /\ UNCHANGED startedInGap

DockerStart(id) ==
    /\ status[id] \in { "created", "exited" }
    /\ DockerStep(id, "running", a_start)
    /\ startedInGap' = IF InGap THEN startedInGap \cup { id } ELSE startedInGap

DockerStop(id) ==
    /\ status[id] = "running"
    /\ \E action \in StopActions : DockerStep(id, "exited", action)
    /\ UNCHANGED startedInGap

\* docker rm, or docker rm -f of a running container
DockerDestroy(id) ==
    /\ status[id] \in { "created", "running", "exited" }
    /\ DockerStep(id, "removed", a_destroy)
    /\ UNCHANGED startedInGap

DockerOther(id) ==
    /\ status[id] = "running"
    /\ Delivering
    /\ \E action \in NoiseActions : DockerStep(id, "running", action)
    /\ UNCHANGED startedInGap

\* The event stream ends (daemon restart, network error): the channel is closed.
DockerFeedClose ==
    /\ Alive
    /\ Delivering
    /\ feed' = "closed"
    /\ UNCHANGED << status, cjAttached, envSteps, fqdnToIp, autoAdd, mainPc, crash, probe >>
    /\ UNCHANGED chanVars
    /\ UNCHANGED monVars
    /\ UNCHANGED resVars
    /\ UNCHANGED histVars


(***************************************************************************)
(* main (cjsocks.go:73-146).                                               *)
(***************************************************************************)
\* go app.monitorDocker() (cjsocks.go:137)
MainSpawnMonitor ==
    /\ Alive
    /\ mainPc = "start"
    /\ mainPc' = "spawned"
    /\ monPc' = "list"
    /\ UNCHANGED << fqdnToIp, autoAdd, crash, containers, idx, event, domains, ip, ret, widx, probe >>
    /\ UNCHANGED dockerVars
    /\ UNCHANGED chanVars
    /\ UNCHANGED resVars
    /\ UNCHANGED histVars

\* server.ListenAndServe (cjsocks.go:142): from here on the proxy calls Resolve.
MainListenAndServe ==
    /\ Alive
    /\ mainPc = "spawned"
    /\ mainPc' = "serving"
    /\ UNCHANGED << fqdnToIp, autoAdd, crash, probe >>
    /\ UNCHANGED dockerVars
    /\ UNCHANGED chanVars
    /\ UNCHANGED monVars
    /\ UNCHANGED resVars
    /\ UNCHANGED histVars

(***************************************************************************)
(* monitorDocker (cjsocks.go:148-254) and what it calls.  A step of the    *)
(* goroutine changes only what Step lists besides monPc.                   *)
(***************************************************************************)
NilDereference == "panic: nil pointer dereference"
SliceBounds == "panic: slice bounds out of range"
ConcurrentMapAccess == "fatal error: concurrent map read and map write"

MonitorFrame ==
    /\ UNCHANGED << autoAdd, mainPc, probe >>
    /\ UNCHANGED << feed, envSteps, status >>
    /\ UNCHANGED << resPc, resName, resIp, resOut, resAsked, resCtx >>
    /\ UNCHANGED startedInGap

\* A panic in the goroutine ends the process; the goroutine stays where it was.
MonitorPanics(why) ==
    /\ crash' = why
    /\ UNCHANGED << fqdnToIp, cjAttached, resTorn, regLog, seen >>
    /\ UNCHANGED chanVars
    /\ UNCHANGED monVars
    /\ MonitorFrame

RECURSIVE Ascending(_)
Ascending(S) ==
    IF S = {} THEN << >>
    ELSE LET m == CHOOSE x \in S : \A y \in S : x <= y
         IN  << m >> \o Ascending(S \ { m })

\* The variant of the loop test that leaves the last container out.
enumerationDoneEarly(listing, i) == i >= Len(listing)

\* for _, container := range containers (cjsocks.go:344): no container is left.
enumerationDone(listing, i) == i > Len(listing)

\* docker.NewClient and client.CreateNetwork (cjsocks.go:152-179, a failure to
\* create the network is only printed), then registerRunningContainers is
\* entered and client.ListContainers (cjsocks.go:339) gives the running containers.
ListContainers ==
    /\ Alive
    /\ monPc = "list"
    /\ containers' = Ascending({ id \in Ids : status[id] = "running" })
    /\ idx' = 1
    /\ monPc' = IF enumerationDone(containers', 1) THEN "subscribe" ELSE "enum_domains"
    /\ UNCHANGED << fqdnToIp, cjAttached, resTorn, regLog, seen, crash >>
    /\ UNCHANGED << event, domains, ip, ret, widx >>
    /\ UNCHANGED chanVars
    /\ MonitorFrame

\* getDomains: InspectContainer and the derivation (cjsocks.go:354-421).
GetDomainsStep(id, next, returnTo) ==
    LET container == InspectContainer(id)
    IN  IF InspectFails(id)
        THEN MonitorPanics(NilDereference)
        ELSE IF getDomainsPanics(container)
        THEN MonitorPanics(SliceBounds)
        ELSE /\ domains' = getDomains(container, defaultBaseDomain)
             /\ seen' = [ seen EXCEPT !.byDomains = container ]
             /\ monPc' = next
             /\ ret' = returnTo
             /\ UNCHANGED << fqdnToIp, cjAttached, resTorn, regLog, crash >>
             /\ UNCHANGED << containers, idx, event, ip, widx >>
             /\ UNCHANGED chanVars
             /\ MonitorFrame

\* getContainerIP: InspectContainer and the selection (cjsocks.go:273-315).
GetContainerIPStep(id, next, returnTo) ==
    LET container == InspectContainer(id)
    IN  IF InspectFails(id)
        THEN MonitorPanics(NilDereference)
        ELSE /\ \E netOrder \in Orders(DOMAIN container.Networks),
                   portOrder \in Orders(DOMAIN container.Ports) :
                    ip' = getContainerIP(cjnetworkName, container, netOrder, portOrder)
             /\ seen' = [ seen EXCEPT !.byIP = container ]
             /\ monPc' = next
             /\ ret' = returnTo
             /\ UNCHANGED << fqdnToIp, cjAttached, resTorn, regLog, crash >>
             /\ UNCHANGED << containers, idx, event, domains, widx >>
             /\ UNCHANGED chanVars
             /\ MonitorFrame

\* registerRunningContainers, cjsocks.go:345
EnumGetDomains ==
    /\ Alive
    /\ monPc = "enum_domains"
    /\ GetDomainsStep(containers[idx], "enum_ip", "enum")

\* registerRunningContainers, cjsocks.go:346
EnumGetContainerIP ==
    /\ Alive
    /\ monPc = "enum_ip"
    /\ GetContainerIPStep(containers[idx], "register", "enum")

\* The return of registerDomains to its caller: the loop of
\* registerRunningContainers (cjsocks.go:344-349) or the event loop.  The call
\* is logged: for which container, with which arguments, from where, what
\* the two inspections behind the arguments returned, and whether the registry
\* maps every domain to ip when it returns.
RegisterReturns ==
    /\ IF ret = "enum"
       THEN /\ idx' = idx + 1
            /\ monPc' = IF enumerationDone(containers, idx + 1)
                        THEN "subscribe" ELSE "enum_domains"
       ELSE /\ idx' = idx
            /\ monPc' = "loop"
    /\ regLog' = Append(regLog,
          [ ID |-> IF ret = "enum" THEN containers[idx] ELSE event.ID,
            domains |-> domains,
            ip |-> ip,
            by |-> ret,
            seen |-> seen,
            mapped |-> \A i \in 1..Len(domains) : mapaccess(fqdnToIp', domains[i]) = ip ])

\* Readers inside the map access when an assignment starts overlap it.
Overlapped == [ r \in Resolvers |-> resTorn[r] \/ resPc[r] = "reading" ]

\* registerDomains is called (cjsocks.go:256-260): return, or start the first assignment.
RegisterDomains ==
    /\ Alive
    /\ monPc = "register"
    /\ fqdnToIp' = fqdnToIp
    /\ IF registerDomainsReturnsEarly(ip) \/ domains = << >>
       THEN /\ RegisterReturns
            /\ UNCHANGED << widx, resTorn >>
       ELSE /\ monPc' = "assign"
            /\ widx' = 1
            /\ resTorn' = Overlapped
            /\ UNCHANGED << idx, regLog >>
    /\ UNCHANGED << cjAttached, crash, seen >>
    /\ UNCHANGED << containers, event, domains, ip, ret >>
    /\ UNCHANGED chanVars
    /\ MonitorFrame

\* app.fqdnToIp[fqdn] = ip completes (cjsocks.go:263); the loop goes on or ends.
RegisterAssign ==
    /\ Alive
    /\ monPc = "assign"
    /\ fqdnToIp' = mapassign(fqdnToIp, domains[widx], ip)
    /\ IF widx < Len(domains)
       THEN /\ widx' = widx + 1
            /\ resTorn' = Overlapped
            /\ UNCHANGED << monPc, idx, regLog >>
       ELSE /\ RegisterReturns
            /\ UNCHANGED << widx, resTorn >>
    /\ UNCHANGED << cjAttached, crash, seen >>
    /\ UNCHANGED << containers, event, domains, ip, ret >>
    /\ UNCHANGED chanVars
    /\ MonitorFrame

\* client.AddEventListener (cjsocks.go:183-184)
AddEventListener ==
    /\ Alive
    /\ monPc = "subscribe"
    /\ listening' = TRUE
    /\ monPc' = "loop"
    /\ UNCHANGED << fqdnToIp, cjAttached, resTorn, regLog, seen, crash, events >>
    /\ UNCHANGED << containers, idx, event, domains, ip, ret, widx >>
    /\ MonitorFrame


(***************************************************************************)
(* The event loop (cjsocks.go:192-253).                                    *)
(***************************************************************************)
\* action := strings.Split(event.Action, ":")[0] (cjsocks.go:193)
actionOf(e) == SplitColonFirst(e.Action)

ExecActions == { a_exec_create, a_exec_start, a_exec_die }

\* The variant of the start case that takes connect events too.
StartActionsWithConnect == { a_start, a_connect }

\* case "start" (cjsocks.go:214)
StartActions == { a_start }
RemovalActions == { a_destroy, a_stop, a_kill, a_die }
KnownActions ==
    ExecActions \cup RemovalActions \cup { a_create, a_start, a_disconnect, a_connect }

\* for event := range events: the next event is received and its case entered.
Receive(actions, next) ==
    /\ Alive
    /\ monPc = "loop"
    /\ events # << >>
    /\ actionOf(Head(events)) \in actions
    /\ event' = Head(events)
    /\ events' = Tail(events)
    /\ monPc' = next
    /\ UNCHANGED << fqdnToIp, cjAttached, resTorn, regLog, seen, crash, listening >>
    /\ UNCHANGED << containers, idx, domains, ip, ret, widx >>
    /\ MonitorFrame

\* case "exec_create", "exec_start", "exec_die" (cjsocks.go:195)
HandleExec ==
    /\ monPc = "loop"
    /\ Receive(ExecActions, "loop")

\* case "create" (cjsocks.go:196-198)
HandleCreate ==
    /\ monPc = "loop"
    /\ Receive({ a_create }, IF autoAdd THEN "create_inspect" ELSE "loop")

\* case "start" (cjsocks.go:214-215)
HandleStart ==
    /\ monPc = "loop"
    /\ Receive(StartActions, "start_inspect")

\* case "destroy", "stop", "kill", "die" (cjsocks.go:233-241): prints the event.
HandleRemoval ==
    /\ monPc = "loop"
    /\ Receive(RemovalActions, "loop")

\* case "disconnect" (cjsocks.go:242-245)
HandleDisconnect ==
    /\ monPc = "loop"
    /\ Receive({ a_disconnect }, "loop")

\* case "connect" (cjsocks.go:246-248)
HandleConnect ==
    /\ monPc = "loop"
    /\ Receive({ a_connect }, "loop")

\* default (cjsocks.go:249-251)
HandleDefault ==
    /\ events # << >>
    /\ actionOf(Head(events)) \notin KnownActions
    /\ Receive({ actionOf(Head(events)) }, "loop")

\* create: InspectContainer, then the loop over container.NetworkSettings (cjsocks.go:199-205)
CreateInspect ==
    /\ Alive
    /\ monPc = "create_inspect"
    /\ IF InspectFails(event.ID)
       THEN MonitorPanics(NilDereference)
       ELSE /\ monPc' = "create_connect"
            /\ UNCHANGED << fqdnToIp, cjAttached, resTorn, regLog, seen, crash >>
            /\ UNCHANGED << containers, idx, event, domains, ip, ret, widx >>
            /\ UNCHANGED chanVars
            /\ MonitorFrame

\* create: client.ConnectNetwork, its error ignored (cjsocks.go:207-212)
CreateConnect ==
    /\ Alive
    /\ monPc = "create_connect"
    /\ cjAttached' = IF InspectFails(event.ID)
                     THEN cjAttached
                     ELSE [ cjAttached EXCEPT ![event.ID] = TRUE ]
    /\ monPc' = "loop"
    /\ UNCHANGED << fqdnToIp, resTorn, regLog, seen, crash >>
    /\ UNCHANGED << containers, idx, event, domains, ip, ret, widx >>
    /\ UNCHANGED chanVars
    /\ MonitorFrame

\* start: InspectContainer, then container.Config.Labels (cjsocks.go:216-218)
StartInspect ==
    /\ Alive
    /\ monPc = "start_inspect"
    /\ IF InspectFails(event.ID)
       THEN MonitorPanics(NilDereference)
       ELSE /\ monPc' = "start_ip"
            /\ UNCHANGED << fqdnToIp, cjAttached, resTorn, regLog, seen, crash >>
            /\ UNCHANGED << containers, idx, event, domains, ip, ret, widx >>
            /\ UNCHANGED chanVars
            /\ MonitorFrame

\* start: ip := getContainerIP(app, client, event.ID) (cjsocks.go:219)
StartGetContainerIP ==
    /\ Alive
    /\ monPc = "start_ip"
    /\ GetContainerIPStep(event.ID, "start_domains", "loop")

\* start: domains := getDomains(client, event.ID, ...) (cjsocks.go:220)
StartGetDomains ==
    /\ Alive
    /\ monPc = "start_domains"
    /\ GetDomainsStep(event.ID, "register", "loop")

\* The channel is closed and drained: the range loop ends, monitorDocker returns
\* and the deferred RemoveEventListener runs (cjsocks.go:189, 192, 254).
LoopEnds ==
    /\ Alive
    /\ monPc = "loop"
    /\ events = << >>
    /\ feed = "closed"
    /\ monPc' = "exited"
    /\ listening' = FALSE
    /\ UNCHANGED << fqdnToIp, cjAttached, resTorn, regLog, seen, crash, events >>
    /\ UNCHANGED << containers, idx, event, domains, ip, ret, widx >>
    /\ MonitorFrame

(***************************************************************************)
(* Resolve (cjsocks.go:318-334), called by the proxy on its own goroutines.*)
(***************************************************************************)
ResolveFrame ==
    /\ UNCHANGED << autoAdd, mainPc, probe >>
    /\ UNCHANGED dockerVars
    /\ UNCHANGED chanVars
    /\ UNCHANGED monVars
    /\ UNCHANGED histVars

\* The call enters app.fqdnToIp[name] (cjsocks.go:323).  With an assignment
\* under way the runtime may see the write flag and end the process.
ResolveCall(r) ==
    /\ Alive
    /\ mainPc = "serving"
    /\ resPc[r] = "idle"
    /\ \E name \in QueryNames :
        /\ resName' = [ resName EXCEPT ![r] = name ]
        /\ resPc' = [ resPc EXCEPT ![r] = "reading" ]
        /\ resTorn' = [ resTorn EXCEPT ![r] = (monPc = "assign") ]
    /\ UNCHANGED << fqdnToIp, resIp, resOut, resAsked, resCtx, crash >>
    /\ ResolveFrame

ResolveMapFatal(r) ==
    /\ Alive
    /\ resPc[r] = "reading"
    /\ resTorn[r]
    /\ monPc = "assign"
    /\ crash' = ConcurrentMapAccess
    /\ UNCHANGED fqdnToIp
    /\ UNCHANGED resVars
    /\ ResolveFrame

\* What a map read can return: the stored value, or, when it overlapped an
\* assignment, also the value being written or a miss.
ReadValues(r) ==
    { mapaccess(fqdnToIp, resName[r]) }
    \cup (IF resTorn[r] THEN { Empty } ELSE {})
    \cup (IF resTorn[r] /\ monPc = "assign" /\ domains[widx] = resName[r] THEN { ip } ELSE {})

\* ip := app.fqdnToIp[name] completes (cjsocks.go:323)
ResolveRead(r) ==
    /\ Alive
    /\ resPc[r] = "reading"
    /\ \E v \in ReadValues(r) : resIp' = [ resIp EXCEPT ![r] = v ]
    /\ fqdnToIp' = mapAfterAccess(fqdnToIp, resName[r])
    /\ resPc' = [ resPc EXCEPT ![r] = "resolving" ]
    /\ UNCHANGED << resName, resTorn, resOut, resAsked, resCtx, crash >>
    /\ ResolveFrame

\* net.ResolveIPAddr("ip", host) is called (cjsocks.go:323-327).  An address
\* literal is parsed at once; for any other host the system resolver is asked,
\* and the call blocks until it answers.
ResolveIPAddr(r) ==
    /\ Alive
    /\ resPc[r] = "resolving"
    /\ LET host == resolveHost(resIp[r], resName[r])
       IN  IF ParseIP(host) # NoIP
           THEN /\ resOut' = [ resOut EXCEPT ![r] = [ err |-> FALSE, addr |-> ParseIP(host) ] ]
                /\ resPc' = [ resPc EXCEPT ![r] = "returned" ]
                /\ UNCHANGED resAsked
           ELSE /\ resAsked' = [ resAsked EXCEPT ![r] = host ]
                /\ resPc' = [ resPc EXCEPT ![r] = "waiting" ]
                /\ UNCHANGED resOut
    /\ resTorn' = [ resTorn EXCEPT ![r] = FALSE ]
    /\ UNCHANGED << fqdnToIp, resName, resIp, resCtx, crash >>
    /\ ResolveFrame

\* The caller's context is cancelled, or its deadline passes, while the system
\* resolver is asked.  Resolve hands ctx back and never reads it
\* (cjsocks.go:318, 330, 333): nothing of the call changes.
CallerCancels(r) ==
    /\ Alive
    /\ resPc[r] = "waiting"
    /\ resCtx[r] = "live"
    /\ resCtx' = [ resCtx EXCEPT ![r] = "cancelled" ]
    /\ UNCHANGED << fqdnToIp, resPc, resName, resIp, resTorn, resOut, resAsked, crash >>
    /\ ResolveFrame

\* The system resolver answers and net.ResolveIPAddr returns (cjsocks.go:326).
SystemResolverAnswers(r) ==
    /\ Alive
    /\ resPc[r] = "waiting"
    /\ \E answer \in ExternalAnswers : resOut' = [ resOut EXCEPT ![r] = answer ]
    /\ resPc' = [ resPc EXCEPT ![r] = "returned" ]
    /\ UNCHANGED << fqdnToIp, resName, resIp, resTorn, resAsked, resCtx, crash >>
    /\ ResolveFrame

\* return (cjsocks.go:328-333): the connection is free for its next request.
ResolveReturn(r) ==
    /\ Alive
    /\ resPc[r] = "returned"
    /\ resPc' = [ resPc EXCEPT ![r] = "idle" ]
    /\ resName' = [ resName EXCEPT ![r] = Empty ]
    /\ resIp' = [ resIp EXCEPT ![r] = Empty ]
    /\ resOut' = [ resOut EXCEPT ![r] = NoResult ]
    /\ resAsked' = [ resAsked EXCEPT ![r] = Empty ]
    /\ resCtx' = [ resCtx EXCEPT ![r] = "live" ]
    /\ UNCHANGED << fqdnToIp, resTorn, crash >>
    /\ ResolveFrame

(***************************************************************************)
(* The program with its environment.                                       *)
(***************************************************************************)
Next ==
    \/ \E id \in Ids : DockerCreate(id)
    \/ \E id \in Ids : DockerStart(id)
    \/ \E id \in Ids : DockerStop(id)
    \/ \E id \in Ids : DockerDestroy(id)
    \/ \E id \in Ids : DockerOther(id)
    \/ DockerFeedClose
    \/ MainSpawnMonitor
    \/ MainListenAndServe
    \/ ListContainers
    \/ EnumGetDomains
    \/ EnumGetContainerIP
    \/ RegisterDomains
    \/ RegisterAssign
    \/ AddEventListener
    \/ HandleExec
    \/ HandleCreate
    \/ HandleStart
    \/ HandleRemoval
    \/ HandleDisconnect
    \/ HandleConnect
    \/ HandleDefault
    \/ CreateInspect
    \/ CreateConnect
    \/ StartInspect
    \/ StartGetContainerIP
    \/ StartGetDomains
    \/ LoopEnds
    \/ \E r \in Resolvers : ResolveCall(r)
    \/ \E r \in Resolvers : ResolveMapFatal(r)
    \/ \E r \in Resolvers : ResolveRead(r)
    \/ \E r \in Resolvers : ResolveIPAddr(r)
    \/ \E r \in Resolvers : CallerCancels(r)
    \/ \E r \in Resolvers : SystemResolverAnswers(r)
    \/ \E r \in Resolvers : ResolveReturn(r)

Spec == Init /\ [][Next]_vars

\* The program while the proxy makes no request.  Resolve changes nothing but
\* its own variables and crash, so what the monitor does to the registry is the
\* same with and without it, up to the point a fatal error ends the process.
NextMonitor ==
    \/ \E id \in Ids : DockerCreate(id)
    \/ \E id \in Ids : DockerStart(id)
    \/ \E id \in Ids : DockerStop(id)
    \/ \E id \in Ids : DockerDestroy(id)
    \/ \E id \in Ids : DockerOther(id)
    \/ DockerFeedClose
    \/ MainSpawnMonitor
    \/ MainListenAndServe
    \/ ListContainers
    \/ EnumGetDomains
    \/ EnumGetContainerIP
    \/ RegisterDomains
    \/ RegisterAssign
    \/ AddEventListener
    \/ HandleExec
    \/ HandleCreate
    \/ HandleStart
    \/ HandleRemoval
    \/ HandleDisconnect
    \/ HandleConnect
    \/ HandleDefault
    \/ CreateInspect
    \/ CreateConnect
    \/ StartInspect
    \/ StartGetContainerIP
    \/ StartGetDomains
    \/ LoopEnds

MonitorSpec == Init /\ [][NextMonitor]_vars

\* The program while Docker reports nothing after startup: the startup
\* enumeration writes the registry and the proxy calls Resolve.  The statements
\* of Resolve read the registry and nothing of Docker, and registerDomains is
\* the one writer in both the enumeration and the event loop.
NextServe ==
    \/ MainSpawnMonitor
    \/ MainListenAndServe
    \/ ListContainers
    \/ EnumGetDomains
    \/ EnumGetContainerIP
    \/ RegisterDomains
    \/ RegisterAssign
    \/ AddEventListener
    \/ \E r \in Resolvers : ResolveCall(r)
    \/ \E r \in Resolvers : ResolveMapFatal(r)
    \/ \E r \in Resolvers : ResolveRead(r)
    \/ \E r \in Resolvers : ResolveIPAddr(r)
    \/ \E r \in Resolvers : CallerCancels(r)
    \/ \E r \in Resolvers : SystemResolverAnswers(r)
    \/ \E r \in Resolvers : ResolveReturn(r)

ServeSpec == Init /\ [][NextServe]_vars

(***************************************************************************)
(* getContainerIP on its own: one call on the network settings of a        *)
(* container, over the attachments and port bindings Docker can report and *)
(* the orders in which Go can iterate them.                                *)
(***************************************************************************)
MaxNetworks == 2        \* networks a container is attached to
MaxPorts == 2           \* ports a container exposes

net_cj_mixed == <<"C","J","-","S","o","c","k","s","5">>
ip_local == <<"1","2","7",".","0",".","0",".","1">>
port_https == <<"4","4","3","/","t","c","p">>

NetworkNames == { default_cj_network_name, net_cj_mixed, net_bridge, net_host }
NetworkAddresses == { Empty, ip_app_cj, ip_app }
PortNames == { port_http, port_https }

\* The bindings of a port: none (exposed, not published), or HostIP values.
BindingLists == { << >>, << Empty >>, << ip_host >>, << Empty, ip_local >> }

\* container.NetworkSettings.Networks and container.NetworkSettings.Ports
NetworkMaps ==
    UNION { [ S -> NetworkAddresses ] :
              S \in { T \in SUBSET NetworkNames : Cardinality(T) <= MaxNetworks } }
PortMaps ==
    UNION { [ S -> BindingLists ] :
              S \in { T \in SUBSET PortNames : Cardinality(T) <= MaxPorts } }

GetContainerIPInit ==
    /\ AppInit
    /\ status = [ id \in Ids |-> "none" ]
    /\ autoAdd = FALSE
    /\ \E networks \in NetworkMaps, ports \in PortMaps :
          probe = [ pc |-> "call",
                    container |-> [ Profiles[1] EXCEPT !.Networks = networks, !.Ports = ports ],
                    netOrder |-> << >>,
                    portOrder |-> << >>,
                    ip |-> Empty ]

\* getContainerIP(app, client, ID) runs on the inspected container (cjsocks.go:283-314).
CallGetContainerIP ==
    /\ probe.pc = "call"
    /\ \E netOrder \in Orders(DOMAIN probe.container.Networks),
          portOrder \in Orders(DOMAIN probe.container.Ports) :
            probe' = [ probe EXCEPT
                         !.pc = "done",
                         !.netOrder = netOrder,
                         !.portOrder = portOrder,
                         !.ip = getContainerIP(cjnetworkName, probe.container,
                                               netOrder, portOrder) ]
    /\ UNCHANGED << status, cjAttached, feed, envSteps, listening, events, fqdnToIp,
                    autoAdd, mainPc, crash >>
    /\ UNCHANGED monVars
    /\ UNCHANGED resVars
    /\ UNCHANGED histVars

GetContainerIPSpec == GetContainerIPInit /\ [][CallGetContainerIP]_vars

(***************************************************************************)
(* getDomains on its own: one call on the metadata of a container, over    *)
(* the names, hostnames, domain names and labels a container can carry.    *)
(***************************************************************************)
name_web == <<"/","w","e","b">>
name_svcweb == <<"s","v","c","w","e","b">>
host_api == <<"a","p","i">>
host_generated == <<"0","1","2","3","4","5","6","7","8","9","a","b">>
host_twelve == <<"m","y","-","h","o","s","t","-","n","a","m","e">>
domain_svc_local == <<"s","v","c",".","l","o","c","a","l">>
base_lan == <<"l","a","n">>

ContainerNames == { name_web, name_svcweb, Empty }
Hostnames == { Empty, host_api, host_generated, host_twelve }
Domainnames == { Empty, domain_svc_local }
BaseDomains == { default_base_domain, base_lan }

\* A label that is not set.
Unset == << "unset" >>

\* container.Config.Labels with the given values, the unset ones left out.
LabelsOf(hostName, service, project, subDomain, domainName, useBase) ==
    LET given == (label_cj_hostname :> hostName)
                 @@ (label_docker_compose_service :> service)
                 @@ (label_docker_compose_project :> project)
                 @@ (label_cj_subdomain :> subDomain)
                 @@ (label_cj_domain :> domainName)
                 @@ (label_cj_flag_use_container_base_domain :> useBase)
    IN  [ k \in { key \in DOMAIN given : given[key] # Unset } |-> given[k] ]

LabelMaps ==
    { LabelsOf(hostName, service, project, subDomain, domainName, useBase) :
        hostName \in { Unset, <<"A","p","i">> },
        service \in { Unset, <<"w","e","b">> },
        project \in { Unset, <<"s","h","o","p">> },
        subDomain \in { Unset, Empty, <<"a","d","m","i","n">> },
        domainName \in { Unset, <<"i","n","t","e","r","n","a","l">> },
        useBase \in { Unset, s_true, <<"f","a","l","s","e">> } }

GetDomainsInit ==
    /\ AppInit
    /\ status = [ id \in Ids |-> "none" ]
    /\ autoAdd = FALSE
    /\ \E name \in ContainerNames, hostname \in Hostnames, domainname \in Domainnames,
          labels \in LabelMaps, base \in BaseDomains :
          probe = [ pc |-> "call",
                    container |-> [ Name |-> name, Hostname |-> hostname,
                                    Domainname |-> domainname, Labels |-> labels,
                                    Networks |-> << >>, Ports |-> << >> ],
                    defaultBaseDomain |-> base,
                    domains |-> << >> ]

\* getDomains(client, ID, defaultBaseDomain) runs on the inspected container
\* (cjsocks.go:355-420); container.Name[1:] panics on an empty Name.
CallGetDomains ==
    /\ probe.pc = "call"
    /\ IF getDomainsPanics(probe.container)
       THEN probe' = [ probe EXCEPT !.pc = "panicked" ]
       ELSE probe' = [ probe EXCEPT
                         !.pc = "done",
                         !.domains = getDomains(probe.container, probe.defaultBaseDomain) ]
    /\ UNCHANGED << status, cjAttached, feed, envSteps, listening, events, fqdnToIp,
                    autoAdd, mainPc, crash >>
    /\ UNCHANGED monVars
    /\ UNCHANGED resVars
    /\ UNCHANGED histVars

GetDomainsSpec == GetDomainsInit /\ [][CallGetDomains]_vars


(***************************************************************************)
(* Properties.                                                             *)
(***************************************************************************)
\* The last registerDomains call that returned.
LastCall == regLog[Len(regLog)]

\* Lookup as Resolve performs it (cjsocks.go:323): the stored address, "" if none.
Lookup(name) == mapaccess(fqdnToIp, name)

\* registerRunningContainers has returned.
EnumerationComplete ==
    /\ monPc \notin { "idle", "list", "enum_domains", "enum_ip" }
    /\ ~(monPc \in { "register", "assign" } /\ ret = "enum")

\* The statements of the event loop that use the result of InspectContainer.
InspectingPcs == { "create_inspect", "start_inspect", "start_ip", "start_domains" }

\* The monitor waits for an event and none is pending.
MonitorQuiet == Alive /\ monPc = "loop" /\ events = << >>

\* An address getContainerIP can select for a container Docker knows.
SelectedAddresses(id) ==
    LET container == InspectContainer(id)
    IN  { getContainerIP(cjnetworkName, container, netOrder, portOrder) :
            netOrder \in Orders(DOMAIN container.Networks),
            portOrder \in Orders(DOMAIN container.Ports) }

\* C1: with the monitor writing the registry and Resolve calls reading it, no
\* interleaving ends the process with a fatal error and no read of the map
\* overlaps a write: every lookup sees the map as a completed write left it.
C1_NoReadOverlapsWrite ==
    /\ crash # ConcurrentMapAccess
    /\ \A r \in Resolvers : ~(resPc[r] = "reading" /\ monPc = "assign")
    /\ \A r \in Resolvers : ~resTorn[r]

\* C2: once the monitor has handled a stop, destroy, kill or die event of a
\* container that can still be inspected and whose FQDN it registered before,
\* the registry does not contain that FQDN.
C2_RemovedAfterStop ==
    (/\ Alive
     /\ monPc = "loop"
     /\ actionOf(event) \in RemovalActions
     /\ ~InspectFails(event.ID))
    => LET fqdns == getDomains(InspectContainer(event.ID), defaultBaseDomain)
       IN  \A i \in 1..Len(fqdns) :
             (\E j \in 1..Len(regLog) :
                 /\ regLog[j].ID = event.ID
                 /\ regLog[j].ip # Empty
                 /\ \E k \in 1..Len(regLog[j].domains) : regLog[j].domains[k] = fqdns[i])
             => Lookup(fqdns[i]) = Empty

\* C3: registry keys are case-insensitive: after registerDomains has stored a
\* non-empty address for an FQDN, a lookup of that FQDN written in upper case
\* or in lower case returns the address.
C3_CaseInsensitiveLookup ==
    (regLog # << >> /\ LastCall.ip # Empty)
    => \A i \in 1..Len(LastCall.domains) :
         /\ Lookup(ToUpper(LastCall.domains[i])) = LastCall.ip
         /\ Lookup(ToLower(LastCall.domains[i])) = LastCall.ip

\* No entry of the registry holds the empty address.
NoEmptyAddress == \A fqdn \in DOMAIN fqdnToIp : fqdnToIp[fqdn] # Empty

\* A registerDomains call with an empty address returns with the registry as it was.
EmptyUpsertIsNoOp ==
    (monPc = "register" /\ ip = Empty /\ monPc' # "register") => fqdnToIp' = fqdnToIp

\* C4: in every reachable state no registry entry has the empty address, and a
\* registerDomains call whose address is empty changes nothing: stored values
\* are kept and no key is created.
C4_EmptyAddressNeverStored == [] NoEmptyAddress /\ [][EmptyUpsertIsNoOp]_vars

\* C4 witness: registerDomains returned from a call with the empty address for
\* an FQDN that was and still is mapped to an address.
C4_Witness ==
    /\ regLog # << >>
    /\ LastCall.ip = Empty
    /\ LastCall.domains # << >>
    /\ Lookup(LastCall.domains[1]) # Empty

\* C5: no Resolve request is served before the startup enumeration has completed.
C5_EnumerationBeforeResolve ==
    \A r \in Resolvers : resPc[r] # "idle" => EnumerationComplete

\* C6: when the event feed has closed, the monitor does not stop consuming
\* events for good: monitorDocker does not return, it subscribes again.
C6_MonitorSurvivesFeedClose == feed = "closed" => monPc # "exited"

\* C7: a failure of InspectContainer while a lifecycle event is handled does
\* not end the process: the monitor goes on with the next events.
C7_InspectFailureContained ==
    ~(crash = NilDereference /\ monPc \in InspectingPcs)

\* C8: a container that started after the startup listing was taken and before
\* the event listener was registered, and still runs with an address, is in
\* the registry once the monitor has nothing left to handle.
C8_NoStartMissed ==
    MonitorQuiet
    => \A id \in startedInGap :
         (status[id] = "running" /\ Empty \notin SelectedAddresses(id))
         => LET fqdns == getDomains(InspectContainer(id), defaultBaseDomain)
            IN  \A i \in 1..Len(fqdns) : Lookup(fqdns[i]) \in SelectedAddresses(id)

\* C9: when the monitor handles its first live event (and ever after), every
\* container of the startup listing has been passed to registerDomains, and
\* the registry held its address for its FQDNs on return when the address was
\* not empty.
C9_ListingUpsertedBeforeEvents ==
    event # NoEvent
    => \A i \in 1..Len(containers) :
         \E j \in 1..Len(regLog) :
            /\ regLog[j].by = "enum"
            /\ regLog[j].ID = containers[i]
            /\ regLog[j].domains # << >>
            /\ (regLog[j].ip # Empty => regLog[j].mapped)

\* C9 witness: a live event is being handled after a listing of two containers
\* one of which had an address.
C9_Witness ==
    /\ event # NoEvent
    /\ Len(containers) >= 2
    /\ \E j \in 1..Len(regLog) : regLog[j].by = "enum" /\ regLog[j].ip # Empty

\* C10: after a start event was handled for a container with a non-empty
\* selected address, a lookup of each derived FQDN returns that address,
\* whatever was stored for the FQDN before: the last writer wins.
C10_StartUpsertWins ==
    (regLog # << >> /\ LastCall.by = "loop" /\ LastCall.ip # Empty)
    => \A i \in 1..Len(LastCall.domains) : Lookup(LastCall.domains[i]) = LastCall.ip

\* C10 witness: a start event replaced the address another container had
\* registered for the same FQDN.
C10_Witness ==
    /\ regLog # << >>
    /\ LastCall.by = "loop"
    /\ LastCall.ip # Empty
    /\ \E j \in 1..(Len(regLog) - 1) :
          /\ regLog[j].ID # LastCall.ID
          /\ regLog[j].domains = LastCall.domains
          /\ regLog[j].ip # Empty
          /\ regLog[j].ip # LastCall.ip
    /\ Lookup(LastCall.domains[1]) = LastCall.ip


\* The lookup of a Resolve call returns what the registry holds for the name:
\* the stored address of a name it holds, "" for a name it does not hold.
LookupReadsRegistry(r) ==
    (resPc[r] = "reading" /\ resPc'[r] = "resolving")
    => resIp'[r] = mapaccess(fqdnToIp, resName[r])

\* After a hit the system resolver is not asked and the stored address is returned.
HitReturnsStored(r) ==
    (resPc[r] = "resolving" /\ resPc'[r] # "resolving" /\ resIp[r] # Empty)
    => /\ resPc'[r] = "returned"
       /\ resAsked'[r] = Empty
       /\ resOut'[r] = [ err |-> FALSE, addr |-> ParseIP(resIp[r]) ]
       /\ ParseIP(resIp[r]) # NoIP

\* After a miss the system resolver is asked for the name as given, and what
\* it answers is what Resolve returns.
MissAsksSystem(r) ==
    /\ (resPc[r] = "resolving" /\ resPc'[r] # "resolving" /\ resIp[r] = Empty
           /\ ParseIP(resName[r]) = NoIP)
       => (resPc'[r] = "waiting" /\ resAsked'[r] = resName[r])
    /\ (resPc[r] = "waiting" /\ resPc'[r] # "waiting")
       => (resPc'[r] = "returned" /\ resOut'[r] \in ExternalAnswers)

\* C11: a Resolve call for a name the registry holds gets the stored address
\* from its lookup, does not ask the system resolver and returns that address;
\* a call for a name the registry does not hold asks the system resolver for
\* the name as given and returns its answer (the address, or the error).
C11_ResolveContract ==
    [][ \A r \in Resolvers :
          /\ LookupReadsRegistry(r)
          /\ HitReturnsStored(r)
          /\ MissAsksSystem(r) ]_vars

\* C12: no step of a Resolve call, and no step of the caller or of the system
\* resolver during it, changes the registry: its keys and their addresses are
\* after the step what they were before, whatever the name and the outcome.
C12_ResolveLeavesRegistry ==
    [][ (resPc' # resPc \/ resCtx' # resCtx \/ resOut' # resOut) => fqdnToIp' = fqdnToIp ]_vars

\* C12 witness: with entries in the registry, a call for a name that is not
\* registered has returned the system resolver's error.
C12_Witness ==
    /\ fqdnToIp # << >>
    /\ \E r \in Resolvers :
          /\ resPc[r] = "returned"
          /\ resOut[r].err
          /\ resName[r] \notin DOMAIN fqdnToIp

\* C13: when the caller's context is cancelled while the system resolver is
\* asked, Resolve does not stay blocked on the answer: it has its return to take.
C13_CancelUnblocks ==
    \A r \in Resolvers :
        (resPc[r] = "waiting" /\ resCtx[r] = "cancelled")
        => ENABLED (ResolveCall(r) \/ ResolveRead(r) \/ ResolveIPAddr(r) \/ ResolveReturn(r))


\* The attachments whose network name matches the preferred name, case ignored.
Matching(container) ==
    { n \in DOMAIN container.Networks : ToLower(n) = ToLower(cjnetworkName) }

\* C14 as stated: whenever an attachment matches the preferred network name,
\* getContainerIP returns the address of a matching attachment, in every
\* iteration order and whatever the other attachments carry.
C14_PreferredNetworkAddress ==
    (probe.pc = "done" /\ Matching(probe.container) # {})
    => probe.ip \in { probe.container.Networks[n] : n \in Matching(probe.container) }

\* C14 amended: whenever an attachment matches the preferred network name and
\* no matching attachment has an empty address, getContainerIP returns the
\* address of a matching attachment, in every iteration order and whatever
\* the other attachments carry.
C14_PreferredNetworkWithAddress ==
    (/\ probe.pc = "done"
     /\ Matching(probe.container) # {}
     /\ \A n \in Matching(probe.container) : probe.container.Networks[n] # Empty)
    => probe.ip \in { probe.container.Networks[n] : n \in Matching(probe.container) }

\* C14 witness: the preferred network, written in another case, was iterated
\* after an attachment with another address, and its address was returned.
C14_Witness ==
    /\ probe.pc = "done"
    /\ Len(probe.netOrder) = 2
    /\ probe.netOrder[2] = net_cj_mixed
    /\ probe.container.Networks[probe.netOrder[1]] \notin { Empty, probe.container.Networks[net_cj_mixed] }
    /\ probe.container.Networks[net_cj_mixed] # Empty
    /\ probe.ip = probe.container.Networks[net_cj_mixed]


RECURSIVE FirstHostAddress(_, _, _)
\* The first non-empty HostIP met when the ports are visited in portOrder and
\* the bindings of each port in their order; "" when there is none.
FirstHostAddress(ports, portOrder, i) ==
    IF i > Len(portOrder) THEN Empty
    ELSE LET bindings == ports[portOrder[i]]
         IN  IF \E j \in 1..Len(bindings) : bindings[j] # Empty
             THEN bindings[CHOOSE j \in 1..Len(bindings) :
                             bindings[j] # Empty /\ \A k \in 1..(j-1) : bindings[k] = Empty]
             ELSE FirstHostAddress(ports, portOrder, i + 1)

\* C15: when no network attachment has an address, getContainerIP returns the
\* first non-empty host address found among the port bindings, whatever is
\* iterated after it: the result is empty only if no binding has one.
C15_FirstHostAddress ==
    (/\ probe.pc = "done"
     /\ \A n \in DOMAIN probe.container.Networks : probe.container.Networks[n] = Empty)
    => probe.ip = FirstHostAddress(probe.container.Ports, probe.portOrder, 1)


\* A label is present: it is set to a value that is not empty.
Present(container, key) == Label(container, key) # Empty

\* The domain part as the two branches give it.
BranchDomain(container, base) ==
    IF Label(container, label_cj_flag_use_container_base_domain) = s_true
       /\ container.Domainname # Empty
    THEN container.Domainname
    ELSE LET sub == IF Present(container, label_cj_subdomain)
                    THEN Label(container, label_cj_subdomain) \o Dot
                    ELSE IF Present(container, label_docker_compose_project)
                    THEN Label(container, label_docker_compose_project) \o Dot
                    ELSE Empty
             tail == IF Present(container, label_cj_domain)
                     THEN Label(container, label_cj_domain)
                     ELSE base
         IN  sub \o tail

\* C16: the FQDN getDomains returns is host.domain-name when the label
\* use_container_base_domain is "true" and the container has a domain name,
\* whatever the other labels and the default base domain; otherwise it is
\* host.[sub.]tail with sub the subdomain label, else the compose project
\* label, else nothing, and tail the domain label, else the default base domain.
C16_DomainBranches ==
    probe.pc = "done"
    => probe.domains = << publicHostname(probe.container) \o Dot
                          \o BranchDomain(probe.container, probe.defaultBaseDomain) >>

\* C16 witness: with the flag "true", a domain name, and the subdomain and
\* domain labels present, the FQDN returned is host.domain-name.
C16_Witness ==
    /\ probe.pc = "done"
    /\ Label(probe.container, label_cj_flag_use_container_base_domain) = s_true
    /\ probe.container.Domainname = domain_svc_local
    /\ Present(probe.container, label_cj_subdomain)
    /\ Present(probe.container, label_cj_domain)
    /\ Present(probe.container, label_docker_compose_project)
    /\ probe.defaultBaseDomain = base_lan
    /\ probe.domains = << publicHostname(probe.container) \o Dot \o domain_svc_local >>

\* s begins with prefix.
StartsWith(s, prefix) ==
    Len(s) >= Len(prefix) /\ SubSeq(s, 1, Len(prefix)) = prefix

HasLeadingSeparator(name) == name # Empty /\ name[1] = "/"

\* The name with a leading separator stripped; a name without one as it is.
StripLeadingSeparator(name) == IF HasLeadingSeparator(name) THEN Tail(name) ELSE name

\* Neither label nor the hostname gives the host part: the name does.
NameIsUsed(container) ==
    /\ ~Present(container, label_cj_hostname)
    /\ ~Present(container, label_docker_compose_service)
    /\ (container.Hostname = Empty \/ Len(container.Hostname) = 12)

\* The host part by precedence: the host_name label, the compose service
\* label, the hostname unless empty or 12 characters long, the stripped name.
PrecedenceHost(container) ==
    IF Present(container, label_cj_hostname)
    THEN Label(container, label_cj_hostname)
    ELSE IF Present(container, label_docker_compose_service)
    THEN Label(container, label_docker_compose_service)
    ELSE IF ~(container.Hostname = Empty \/ Len(container.Hostname) = 12)
    THEN container.Hostname
    ELSE StripLeadingSeparator(container.Name)

\* C17: the FQDN getDomains returns begins with the host part by precedence,
\* followed by "."; a hostname of exactly 12 characters, whatever they are, is
\* never used.  Where the name gives the host part, this is stated for a name
\* that carries the leading separator Docker gives it.
C17_HostPrecedence ==
    (/\ probe.pc = "done"
     /\ NameIsUsed(probe.container) => HasLeadingSeparator(probe.container.Name))
    => /\ Len(probe.domains) = 1
       /\ StartsWith(probe.domains[1], PrecedenceHost(probe.container) \o Dot)

\* C17 witness: no label, a chosen hostname of 12 characters: the FQDN begins
\* with the stripped name.
C17_Witness ==
    /\ probe.pc = "done"
    /\ probe.container.Labels = << >>
    /\ probe.container.Hostname = host_twelve
    /\ probe.container.Name = name_web
    /\ StartsWith(probe.domains[1], <<"w","e","b",".">>)

\* C18: getDomains fails on no metadata, an empty name and a name without
\* leading separator included; it returns exactly one FQDN, and when the name
\* gives the host part, the host part is the name with only a leading
\* separator stripped.
C18_TotalDerivation ==
    /\ probe.pc # "panicked"
    /\ probe.pc = "done"
       => /\ Len(probe.domains) = 1
          /\ NameIsUsed(probe.container)
             => StartsWith(probe.domains[1],
                           StripLeadingSeparator(probe.container.Name) \o Dot)


\* The monitor is in the statements that lead to a registry write of the event loop.
InStartCase ==
    \/ monPc \in { "start_inspect", "start_ip", "start_domains" }
    \/ monPc \in { "register", "assign" } /\ ret = "loop"

\* Only the case of a start event leads to a registry write.
WritesOnlyForStart == InStartCase => actionOf(event) = a_start

\* The registry changes only in an assignment of registerDomains, called by the
\* startup enumeration or for a start event.
ChangeOnlyByUpsert ==
    fqdnToIp' # fqdnToIp
    => (monPc = "assign" /\ (ret = "enum" \/ actionOf(event) = a_start))

\* C19: an event whose action, cut at its first ':', is create, connect,
\* disconnect, exec_create, exec_start, exec_die or not recognized never leads
\* to a registry write, and the registry changes only in the startup
\* enumeration and in the handling of a start event.
C19_OnlyStartWrites == [] WritesOnlyForStart /\ [][ChangeOnlyByUpsert]_vars

\* C19 witness: with entries in the registry, an event whose action carries
\* details after ':' or is not recognized has been handled and the registry
\* holds what the enumeration stored.
C19_Witness ==
    /\ monPc = "loop"
    /\ event # NoEvent
    /\ (event.Action # actionOf(event) \/ actionOf(event) \notin KnownActions)
    /\ fqdnToIp # << >>
    /\ \A j \in 1..Len(regLog) : regLog[j].by = "enum"
    /\ \E j \in 1..Len(regLog) : regLog[j].ip # Empty /\ regLog[j].mapped

\* C20: the FQDNs and the address of every registerDomains call that writes
\* the registry come from the same inspection result: getDomains and
\* getContainerIP saw the container in the same state.
C20_SameSnapshot ==
    \A j \in 1..Len(regLog) :
        (regLog[j].ip # Empty /\ regLog[j].domains # << >>)
        => regLog[j].seen.byIP = regLog[j].seen.byDomains

=============================================================================
